---- MODULE Spec2Model ----
(***************************************************************************)
(* Credential lifecycle manager of the WhatsApp MCP server:                *)
(* OAuth2TokenManager (oauth_manager.py) and the token helpers of          *)
(* whatsapp_mcp/utils.py.  One action per public operation; the provider's *)
(* HTTP answers, the outcome of file writes and removals and the passing   *)
(* of time are the environment's choices.                                  *)
(***************************************************************************)
EXTENDS Integers, FiniteSets, Sequences, TLC

\* ---------------------------------------------------------------- values

\* Python None in a string-valued field, and in a number-valued field.
None == "None"
NoneNum == -1

\* REFRESH_BUFFER_SECONDS = 1 * 24 * 3600
REFRESH_BUFFER_SECONDS == 1 * 24 * 3600
\* token_data.get("expires_in", 3600) and set_access_token's default
DEFAULT_EXPIRES_IN == 3600
\* new_data.get("expires_in", 5184000)
LONG_LIVED_EXPIRES_IN == 5184000
\* get_access_token's margin (both of its branches return the same value)
ACCESS_MARGIN == 300
\* os.getenv("WHATSAPP_OAUTH_REDIRECT_URI", "http://localhost:8080/callback")
DEFAULT_PORT == 8080

\* Bound on the clock: time.time() takes the values 0..MaxNow.
MaxNow == 1

\* expires_in values callers of set_access_token pass: a second short of the
\* refresh window and a second past it.
ExpiresIns == {REFRESH_BUFFER_SECONDS - 1, REFRESH_BUFFER_SECONDS + 1}

\* Python truthiness of an Optional[str] and of an Optional[float].
Truthy(s) == s # None /\ s # ""
TruthyNum(t) == t # NoneNum /\ t # 0

\* dict.get(key, default): the default only when the key is absent.
Get(v, default) == IF v = None THEN default ELSE v
GetNum(v, default) == IF v = NoneNum THEN default ELSE v

\* json.dump / json.load of one field: None is written as null and null is
\* read back as None; strings and numbers keep their value.
JsonNull == "null"
JsonNullNum == -2
json_dump(v) == IF v = None THEN JsonNull ELSE v
json_dump_num(t) == IF t = NoneNum THEN JsonNullNum ELSE t
json_load_KeepsNull(j) == j
json_load(j) == IF j = JsonNull THEN None ELSE j
json_load_num(j) == IF j = JsonNullNum THEN NoneNum ELSE j

\* ------------------------------------------------------------ environment

\* The cache file: missing, unreadable (open fails), malformed (json.load
\* fails), non_object (valid JSON that is not an object: a list, a string, a
\* number, null) or a JSON object with the three keys, as
\* json.dump writes it for the Python values a, e, r.
NoFile == [state |-> "missing", access_token |-> None, expires_at |-> NoneNum, refresh_token |-> None]
BadFile(s) == [state |-> s, access_token |-> None, expires_at |-> NoneNum, refresh_token |-> None]
ObjectFile(a, e, r) ==
    [state |-> "object", access_token |-> json_dump(a), expires_at |-> json_dump_num(e), refresh_token |-> json_dump(r)]

\* Cache files a process may find at start-up.
InitFiles ==
    {NoFile, BadFile("malformed"), BadFile("non_object"), BadFile("unreadable")}
    \cup {ObjectFile("A", LONG_LIVED_EXPIRES_IN, None), ObjectFile("A", 1, "R"), ObjectFile("A", NoneNum, None),
          ObjectFile(None, 1, "R")}

\* Contents of the file has_valid_token reads (three directories above utils.py).
OuterFiles == {ObjectFile(None, 1, None), ObjectFile("B", NoneNum, "R")}

\* Outcome of open(token_file, "w") + json.dump: written, or refused (the
\* exception is swallowed and the file is as it was).  Whether the process may
\* write the file is a property of the deployment: it is chosen at start-up.
WriteOutcomes == {"ok", "denied"}

\* An answer of the provider's token endpoint to one POST.  "ok" is a 200 with
\* a JSON object (any of its keys may be missing), "ok_nonjson" a 200 whose
\* body response.json() rejects, "http_json" an error status with
\* {"error": {"message": ...}}, "http_empty" an error status without content,
\* "http_nonjson" an error status whose content is not JSON, "transport" a
\* connection failure or timeout.
Answer(k, a, e, r) == [kind |-> k, access_token |-> a, expires_in |-> e, refresh_token |-> r]
\* Answers to the code exchange: a short-lived token of two hours.
CodeAnswers ==
    {Answer("ok", "short", 7200, "R"), Answer("ok", "short", 7200, None),
     Answer("ok", "short", NoneNum, None), Answer("ok", None, NoneNum, None)}
    \cup {Answer(k, None, NoneNum, None) : k \in {"ok_nonjson", "http_json", "http_empty", "http_nonjson", "transport"}}
\* Answers to the long-lived exchange (fb_exchange_token): a token of about
\* 60 days; the provider sends no refresh_token here.
LongLivedAnswers ==
    {Answer("ok", a, e, None) : a \in {None, "long"}, e \in {NoneNum, 5183944}}
    \cup {Answer("transport", None, NoneNum, None)}

\* WHATSAPP_OAUTH_REDIRECT_URI: its default, or a value set by the deployment.
LocalCallback(port) == IF port = DEFAULT_PORT THEN "http://localhost:8080/callback" ELSE "http://localhost:<port>/callback"
RedirectUris == {"https://app.example/callback"}

\* ------------------------------------------------------------------ state

VARIABLES
    configured,          \* is_configured(): client_id and client_secret both set
    _access_token,
    _token_expires_at,
    _refresh_token,
    token_file,          \* <dir of oauth_manager.py>/.oauth_token_cache.json
    store_write,         \* what writing token_file does in this deployment
    outer_token_file,    \* the path has_valid_token opens
    now,                 \* time.time()
    redirect_uri,
    last,                \* the last step: the operation called, its HTTP traffic and its outcome
    flow_pc,             \* where start_local_oauth_flow stands: "idle" (not running), "serving", "waiting"
    flow_port,           \* its parameter port
    auth_code_future,    \* its local asyncio.Future
    listener,            \* the TCPServer on localhost:port: "serving" or "closed" (no socket bound)
    original_redirect_uri,  \* its local of that name
    auth_url,            \* the redirect_uri inside the URL handed to webbrowser.open
    inflight             \* per caller: the refresh call that awaits its HTTP response, or "idle"

\* The variables of a running start_local_oauth_flow
flowvars == <<flow_pc, flow_port, auth_code_future, listener, original_redirect_uri, auth_url>>
vars == <<configured, _access_token, _token_expires_at, _refresh_token, token_file, store_write, outer_token_file, now, redirect_uri, last, flowvars, inflight>>
cred == <<_access_token, _token_expires_at, _refresh_token>>

\* The record of a call: the operation and its arguments, the answers to the
\* HTTP requests it issued (one per request, in order), and whether it
\* returned `value` or raised the exception `value` (error: the message of a
\* failure result, of the exception, or of an exception the call swallowed).
Result(op, args, http, outcome, value, error) ==
    [op |-> op, args |-> args, http |-> http, outcome |-> outcome, value |-> value, error |-> error]
Returned(op, args, http, value) == Result(op, args, http, "return", value, None)
NetCalls == Len(last.http)
Bool(b) == IF b THEN "True" ELSE "False"

\* An asyncio.Future: pending, done with a result, done with an exception;
\* NoFuture when no flow is running.
NoFuture == [state |-> "none", result |-> None]
Pending == [state |-> "pending", result |-> None]
Resolved(code) == [state |-> "result", result |-> code]
Failed(error) == [state |-> "exception", result |-> error]

\* The coroutines that may call the manager concurrently on one event loop.
Callers == {1, 2}

\* ----------------------------------------------------------- construction

\* _load_cached_token reading only the expiry and the refresh token
_load_cached_token_DropsToken(f) ==
    IF f.state = "object"
    THEN <<None, json_load_num(f.expires_at), json_load(f.refresh_token)>>
    ELSE <<None, NoneNum, None>>

\* _load_cached_token: the three fields from the file's object, or nothing.
_load_cached_token(f) ==
    IF f.state = "object"
    THEN <<json_load(f.access_token), json_load_num(f.expires_at), json_load(f.refresh_token)>>
    ELSE <<None, NoneNum, None>>

\* The exception raised inside _load_cached_token's try block: open fails on
\* an unreadable file, json.load on malformed text, data.get on a JSON value
\* that is not an object.
LoadError(f) ==
    IF f.state = "unreadable" THEN "OSError"
    ELSE IF f.state = "malformed" THEN "JSONDecodeError"
    ELSE IF f.state = "non_object" THEN "AttributeError"
    ELSE None

\* __init__ catching only the errors of open and json.load
__init___CatchesReadErrors(f) ==
    IF LoadError(f) = "AttributeError"
    THEN Result("__init__", <<>>, <<>>, "raise", "AttributeError", LoadError(f))
    ELSE Result("__init__", <<>>, <<>>, "return", None, LoadError(f))

\* The outcome of __init__: `except Exception: pass` swallows every error of
\* the load, so the constructor returns.
__init__(f) ==
    Result("__init__", <<>>, <<>>, "return", None, LoadError(f))

\* __init__
Init ==
    /\ configured \in BOOLEAN
    /\ token_file \in InitFiles
    /\ store_write \in WriteOutcomes
    /\ outer_token_file \in OuterFiles
    /\ now = 0
    /\ redirect_uri \in RedirectUris
    /\ _access_token = _load_cached_token(token_file)[1]
    /\ _token_expires_at = _load_cached_token(token_file)[2]
    /\ _refresh_token = _load_cached_token(token_file)[3]
    /\ last = __init__(token_file)
    /\ flow_pc = "idle"
    /\ flow_port = NoneNum
    /\ auth_code_future = NoFuture
    /\ listener = "closed"
    /\ original_redirect_uri = None
    /\ auth_url = None
    /\ inflight = [c \in Callers |-> "idle"]

\* ------------------------------------------------------------- operations

\* The file after _save_token's write attempt with outcome w.
WriteFile(a, e, r) ==
    IF store_write = "ok" THEN ObjectFile(a, e, r) ELSE token_file

\* _save_token storing the lifetime instead of the expiry instant
_save_token_NoClock(access_token, expires_in, refresh_token) ==
    /\ _access_token' = access_token
    /\ _token_expires_at' = expires_in
    /\ _refresh_token' = IF Truthy(refresh_token) THEN refresh_token ELSE _refresh_token
    /\ token_file' = WriteFile(access_token, expires_in, refresh_token)

\* _save_token writing the file first and giving up when the write fails
_save_token_WriteFirst(access_token, expires_in, refresh_token) ==
    IF store_write = "ok"
    THEN /\ _access_token' = access_token
         /\ _token_expires_at' = now + expires_in
         /\ _refresh_token' = IF Truthy(refresh_token) THEN refresh_token ELSE _refresh_token
         /\ token_file' = WriteFile(access_token, now + expires_in, refresh_token)
    ELSE UNCHANGED <<cred, token_file>>

\* _save_token(access_token, expires_in, refresh_token)
_save_token(access_token, expires_in, refresh_token) ==
    /\ _access_token' = access_token
    /\ _token_expires_at' = now + expires_in
    /\ _refresh_token' = IF Truthy(refresh_token) THEN refresh_token ELSE _refresh_token
    /\ token_file' = WriteFile(access_token, now + expires_in, refresh_token)

\* a second passes between two calls
Tick ==
    /\ now < MaxNow
    /\ now' = now + 1
    /\ last' = Returned("tick", <<>>, <<>>, None)
    /\ UNCHANGED <<flowvars, inflight, configured, store_write, cred, token_file, outer_token_file, redirect_uri>>

\* get_access_token withholding a token inside the 300 s margin
get_access_token_Strict ==
    /\ last' = IF Truthy(_access_token) /\ TruthyNum(_token_expires_at) /\ now < _token_expires_at - ACCESS_MARGIN
               THEN Returned("get_access_token", <<>>, <<>>, _access_token)
               ELSE Returned("get_access_token", <<>>, <<>>, None)
    /\ UNCHANGED <<flowvars, inflight, configured, store_write, cred, token_file, outer_token_file, now, redirect_uri>>

\* get_access_token(): both of its return statements
get_access_token ==
    /\ last' = IF Truthy(_access_token) /\ TruthyNum(_token_expires_at) /\ now < _token_expires_at - ACCESS_MARGIN
               THEN Returned("get_access_token", <<>>, <<>>, _access_token)
               ELSE Returned("get_access_token", <<>>, <<>>, _access_token)
    /\ UNCHANGED <<flowvars, inflight, configured, store_write, cred, token_file, outer_token_file, now, redirect_uri>>

\* set_access_token(token, expires_in)
set_access_token(token, expires_in) ==
    /\ _save_token(token, expires_in, None)
    /\ last' = Returned("set_access_token", <<token, expires_in>>, <<>>, None)
    /\ UNCHANGED <<flowvars, inflight, configured, store_write, outer_token_file, now, redirect_uri>>

\* get_authorization_url(): the URL embeds redirect_uri
get_authorization_url ==
    /\ last' = IF configured
               THEN Returned("get_authorization_url", <<>>, <<>>, redirect_uri)
               ELSE Result("get_authorization_url", <<>>, <<>>, "raise", "ValueError", "OAuth2 not configured")
    /\ UNCHANGED <<flowvars, inflight, configured, store_write, cred, token_file, outer_token_file, now, redirect_uri>>

\* _exchange_for_long_lived_token: the response's JSON object, or None
NoData == Answer("none", None, NoneNum, None)
_exchange_for_long_lived_token(r) ==
    IF ~configured THEN NoData
    ELSE IF r.kind = "ok" THEN r
    ELSE NoData

\* truthiness of an Optional[dict]: None and {} are falsy
DictTruthy(d) == d.kind = "ok" /\ (d.access_token # None \/ d.expires_in # NoneNum \/ d.refresh_token # None)

\* ExchangeToken without the upgrade's token superseding the short-lived one
ExchangeToken_ShortOnly(r1, r2) == r1.access_token

\* exchange_code_for_token: the token and expires_in it hands to _save_token
\* (r1 answers the code exchange, r2 the long-lived upgrade)
ExchangeToken(r1, r2) ==
    IF DictTruthy(_exchange_for_long_lived_token(r2))
    THEN Get(_exchange_for_long_lived_token(r2).access_token, r1.access_token)
    ELSE r1.access_token
ExchangeExpiresIn(r1, r2) ==
    IF DictTruthy(_exchange_for_long_lived_token(r2))
    THEN GetNum(_exchange_for_long_lived_token(r2).expires_in, GetNum(r1.expires_in, DEFAULT_EXPIRES_IN))
    ELSE GetNum(r1.expires_in, DEFAULT_EXPIRES_IN)

\* exchange_code_for_token: what it returns or raises
ExchangeResult(op, args, r1, r2) ==
    IF ~configured THEN Result(op, args, <<>>, "raise", "ValueError", "OAuth2 not configured")
    ELSE IF r1.kind = "ok" THEN Returned(op, args, <<r1, r2>>, "success")
    ELSE IF r1.kind = "http_json" THEN Result(op, args, <<r1>>, "return", "failure", "provider message")
    ELSE IF r1.kind = "http_nonjson" THEN Result(op, args, <<r1>>, "raise", "JSONDecodeError", "Expecting value")
    ELSE Result(op, args, <<r1>>, "return", "failure", "str(e)")

\* ExchangeBody dropping the held credential when the exchange is refused
ExchangeBody_ClearsOnFailure(r1, r2) ==
    IF configured /\ r1.kind = "ok"
    THEN _save_token(ExchangeToken(r1, r2), ExchangeExpiresIn(r1, r2), r1.refresh_token)
    ELSE IF configured
    THEN /\ _access_token' = None /\ _token_expires_at' = NoneNum /\ _refresh_token' = None
         /\ UNCHANGED token_file
    ELSE UNCHANGED <<cred, token_file>>

\* exchange_code_for_token: its effect on the credential and the Store
ExchangeBody(r1, r2) ==
    IF configured /\ r1.kind = "ok"
    THEN _save_token(ExchangeToken(r1, r2), ExchangeExpiresIn(r1, r2), r1.refresh_token)
    ELSE UNCHANGED <<cred, token_file>>

\* exchange_code_for_token(authorization_code)
exchange_code_for_token(code, r1, r2) ==
    /\ last' = ExchangeResult("exchange_code_for_token", <<code>>, r1, r2)
    /\ ExchangeBody(r1, r2)
    /\ UNCHANGED <<flowvars, inflight, configured, store_write, outer_token_file, now, redirect_uri>>

\* start_local_oauth_flow(port), run to its end.  bind: TCPServer could bind
\* the port; cb: what the listener hands to the awaiting coroutine before the
\* 300 s timeout (the code of a callback, a callback without code, nothing).
Callbacks == {"abc", "nocode", "timeout"}
FlowRaise(port, http, value, error) == Result("start_local_oauth_flow", <<port>>, http, "raise", value, error)
FlowExchange(port, code, r1, r2) == ExchangeResult("start_local_oauth_flow", <<port>>, r1, r2)
start_local_oauth_flow(port, bind, cb, r1, r2) ==
    IF ~configured
    THEN /\ last' = FlowRaise(port, <<>>, "ValueError", "OAuth2 not configured")
         /\ UNCHANGED <<flowvars, inflight, configured, store_write, cred, token_file, outer_token_file, now, redirect_uri>>
    ELSE IF ~bind
    THEN /\ last' = FlowRaise(port, <<>>, "OSError", "Address already in use")
         /\ UNCHANGED <<flowvars, inflight, configured, store_write, cred, token_file, outer_token_file, now, redirect_uri>>
    ELSE IF cb = "timeout"
    THEN /\ last' = FlowRaise(port, <<>>, "TimeoutError", "OAuth flow timed out")
         /\ redirect_uri' = LocalCallback(port)
         /\ UNCHANGED <<flowvars, inflight, configured, store_write, cred, token_file, outer_token_file, now>>
    ELSE IF cb = "nocode"
    THEN /\ last' = FlowRaise(port, <<>>, "ValueError", "No code found in callback")
         /\ redirect_uri' = LocalCallback(port)
         /\ UNCHANGED <<flowvars, inflight, configured, store_write, cred, token_file, outer_token_file, now>>
    ELSE /\ ExchangeBody(r1, r2)
         /\ last' = IF FlowExchange(port, cb, r1, r2).outcome = "raise"
                    THEN FlowExchange(port, cb, r1, r2)
                    ELSE IF FlowExchange(port, cb, r1, r2).value = "success"
                    THEN Returned("start_local_oauth_flow", <<port>>, <<r1, r2>>, "Successfully authenticated and token cached.")
                    ELSE FlowRaise(port, <<r1>>, "ValueError", "Failed to exchange token")
         /\ redirect_uri' = IF FlowExchange(port, cb, r1, r2).outcome = "raise" THEN LocalCallback(port) ELSE redirect_uri
         /\ UNCHANGED <<flowvars, inflight, configured, store_write, outer_token_file, now>>

\* refresh_token()
refresh_token(r) ==
    /\ IF ~Truthy(_refresh_token)
       THEN /\ last' = Returned("refresh_token", <<>>, <<>>, Bool(FALSE))
            /\ UNCHANGED <<cred, token_file>>
       ELSE IF r.kind = "ok"
       THEN /\ _save_token(r.access_token, GetNum(r.expires_in, DEFAULT_EXPIRES_IN), _refresh_token)
            /\ last' = Returned("refresh_token", <<>>, <<r>>, Bool(TRUE))
       ELSE /\ last' = Returned("refresh_token", <<>>, <<r>>, Bool(FALSE))
            /\ UNCHANGED <<cred, token_file>>
    /\ UNCHANGED <<flowvars, inflight, configured, store_write, outer_token_file, now, redirect_uri>>

\* NeedsRefresh with the buffer comparison off by one (now <= ... returns)
NeedsRefresh_OffByOne ==
    /\ Truthy(_access_token) /\ TruthyNum(_token_expires_at)
    /\ ~(now <= _token_expires_at - REFRESH_BUFFER_SECONDS)
    /\ configured

\* NeedsRefresh without the expiry comparison
NeedsRefresh_Always ==
    /\ Truthy(_access_token) /\ TruthyNum(_token_expires_at)
    /\ configured

\* refresh_if_needed passes its three early returns
NeedsRefresh ==
    /\ Truthy(_access_token) /\ TruthyNum(_token_expires_at)
    /\ ~(now < _token_expires_at - REFRESH_BUFFER_SECONDS)
    /\ configured

\* RefreshBody without the `if access_token:` test before the save
RefreshBody_NoTokenCheck(r) ==
    IF NeedsRefresh /\ DictTruthy(_exchange_for_long_lived_token(r))
    THEN _save_token(r.access_token, GetNum(r.expires_in, LONG_LIVED_EXPIRES_IN), _refresh_token)
    ELSE UNCHANGED <<cred, token_file>>

\* RefreshBody taking the refresh token from the provider's answer
RefreshBody_AnswerRefreshToken(r) ==
    IF NeedsRefresh /\ DictTruthy(_exchange_for_long_lived_token(r))
                    /\ Truthy(_exchange_for_long_lived_token(r).access_token)
    THEN /\ _access_token' = r.access_token
         /\ _token_expires_at' = now + GetNum(r.expires_in, LONG_LIVED_EXPIRES_IN)
         /\ _refresh_token' = r.refresh_token
         /\ token_file' = WriteFile(r.access_token, now + GetNum(r.expires_in, LONG_LIVED_EXPIRES_IN), r.refresh_token)
    ELSE UNCHANGED <<cred, token_file>>

\* the body of refresh_if_needed (get_valid_token runs it too)
RefreshBody(r) ==
    IF NeedsRefresh /\ DictTruthy(_exchange_for_long_lived_token(r))
                    /\ Truthy(_exchange_for_long_lived_token(r).access_token)
    THEN _save_token(r.access_token, GetNum(r.expires_in, LONG_LIVED_EXPIRES_IN), _refresh_token)
    ELSE UNCHANGED <<cred, token_file>>
RefreshHttp(r) == IF NeedsRefresh THEN <<r>> ELSE <<>>

\* refresh_if_needed()
refresh_if_needed(r) ==
    /\ RefreshBody(r)
    /\ last' = Returned("refresh_if_needed", <<>>, RefreshHttp(r), None)
    /\ UNCHANGED <<flowvars, inflight, configured, store_write, outer_token_file, now, redirect_uri>>

\* utils.get_valid_token(): refresh_if_needed(), then get_access_token()
get_valid_token(r) ==
    /\ RefreshBody(r)
    /\ last' = Returned("get_valid_token", <<>>, RefreshHttp(r), _access_token')
    /\ UNCHANGED <<flowvars, inflight, configured, store_write, outer_token_file, now, redirect_uri>>

\* clear_token leaving the refresh token in memory
clear_token_KeepRefresh(rm) ==
    /\ _access_token' = None
    /\ _token_expires_at' = NoneNum
    /\ _refresh_token' = _refresh_token
    /\ token_file' = IF token_file.state # "missing" /\ rm THEN NoFile ELSE token_file
    /\ last' = IF token_file.state # "missing" /\ ~rm
               THEN Result("clear_token", <<>>, <<>>, "return", None, "os.remove failed (swallowed)")
               ELSE Returned("clear_token", <<>>, <<>>, None)
    /\ UNCHANGED <<flowvars, inflight, configured, store_write, outer_token_file, now, redirect_uri>>

\* clear_token(); rm: os.remove succeeds (its failure is swallowed)
clear_token(rm) ==
    /\ _access_token' = None
    /\ _token_expires_at' = NoneNum
    /\ _refresh_token' = None
    /\ token_file' = IF token_file.state # "missing" /\ rm THEN NoFile ELSE token_file
    /\ last' = IF token_file.state # "missing" /\ ~rm
               THEN Result("clear_token", <<>>, <<>>, "return", None, "os.remove failed (swallowed)")
               ELSE Returned("clear_token", <<>>, <<>>, None)
    /\ UNCHANGED <<flowvars, inflight, configured, store_write, outer_token_file, now, redirect_uri>>

\* utils.has_valid_token()
has_valid_token ==
    /\ IF ~configured
       THEN /\ last' = Returned("has_valid_token", <<>>, <<>>, Bool(FALSE))
            /\ UNCHANGED cred
       ELSE IF Truthy(_access_token)
       THEN /\ last' = Returned("has_valid_token", <<>>, <<>>, Bool(TRUE))
            /\ UNCHANGED cred
       ELSE IF outer_token_file.state = "object" /\ Truthy(json_load(outer_token_file.access_token))
       THEN /\ _access_token' = json_load(outer_token_file.access_token)
            /\ _token_expires_at' = json_load_num(outer_token_file.expires_at)
            /\ _refresh_token' = json_load(outer_token_file.refresh_token)
            /\ last' = Returned("has_valid_token", <<>>, <<>>, Bool(TRUE))
       ELSE /\ last' = Returned("has_valid_token", <<>>, <<>>, Bool(FALSE))
            /\ UNCHANGED cred
    /\ UNCHANGED <<flowvars, inflight, configured, store_write, token_file, outer_token_file, now, redirect_uri>>

\* ---------------------------------------------------------- specification

\* The answers an exchange consumes: the upgrade is only asked after a 200
\* with a JSON object to the code exchange.
ExchangeStep(code) ==
    \E r1 \in CodeAnswers :
        IF configured /\ r1.kind = "ok"
        THEN \E r2 \in LongLivedAnswers : exchange_code_for_token(code, r1, r2)
        ELSE exchange_code_for_token(code, r1, NoData)

FlowStep(port) ==
    \E bind \in BOOLEAN, cb \in Callbacks :
        IF configured /\ bind /\ cb \notin {"nocode", "timeout"}
        THEN \E r1 \in CodeAnswers :
                IF r1.kind = "ok"
                THEN \E r2 \in LongLivedAnswers :
                        start_local_oauth_flow(port, bind, cb, r1, r2)
                ELSE start_local_oauth_flow(port, bind, cb, r1, NoData)
        ELSE start_local_oauth_flow(port, bind, cb, NoData, NoData)

Next ==
    \/ Tick
    \/ get_access_token
    \/ get_authorization_url
    \/ \E e \in ExpiresIns : set_access_token("X", e)
    \/ ExchangeStep("abc")
    \/ FlowStep(DEFAULT_PORT)
    \/ \E r \in LongLivedAnswers : refresh_token(r)
    \/ \E r \in LongLivedAnswers : refresh_if_needed(r)
    \/ \E r \in LongLivedAnswers : get_valid_token(r)
    \/ \E rm \in BOOLEAN : clear_token(rm)
    \/ has_valid_token

Spec == Init /\ [][Next]_vars

\* The process ends and a new one constructs its manager over the file the old
\* one left: __init__ again, with the configuration of the environment.
Restart ==
    /\ _access_token' = _load_cached_token(token_file)[1]
    /\ _token_expires_at' = _load_cached_token(token_file)[2]
    /\ _refresh_token' = _load_cached_token(token_file)[3]
    /\ redirect_uri' \in RedirectUris
    /\ last' = __init__(token_file)
    /\ UNCHANGED <<flowvars, inflight, configured, store_write, token_file, outer_token_file, now>>

NextRestart ==
    \/ Next
    \/ Restart

SpecRestart == Init /\ [][NextRestart]_vars

\* ------------------------------------------- the interactive flow, by steps

\* start_local_oauth_flow as the coroutine and the listener thread run it:
\* the coroutine binds and starts the listener, opens the browser, awaits the
\* future under the 300 s timeout, exchanges the code; the listener thread
\* answers requests meanwhile.
Ports == {DEFAULT_PORT, 9090}
Codes == {"abc", "xyz"}
Paths == {"/callback", "/favicon.ico"}
Running(p) == Result("start_local_oauth_flow", <<p>>, <<>>, "running", None, None)

\* the finally block without the shutdown
Finally_Skipped == listener' = listener

\* finally: server.shutdown(); server.server_close()
Finally == listener' = "closed"

\* The coroutine ends (return or raise): the finally block runs and its
\* locals are gone.
Exit ==
    /\ Finally
    /\ flow_pc' = "idle"
    /\ flow_port' = NoneNum
    /\ auth_code_future' = NoFuture
    /\ original_redirect_uri' = None
    /\ auth_url' = None

\* flow_start pointing redirect_uri at the listener before it is bound
flow_start_SwapsFirst(p, bind) ==
    /\ flow_pc = "idle"
    /\ IF ~configured
       THEN /\ last' = FlowRaise(p, <<>>, "ValueError", "OAuth2 not configured")
            /\ UNCHANGED <<flowvars, redirect_uri>>
       ELSE IF ~bind
       THEN /\ last' = FlowRaise(p, <<>>, "OSError", "Address already in use")
            /\ redirect_uri' = LocalCallback(p)
            /\ UNCHANGED flowvars
       ELSE /\ last' = Running(p)
            /\ flow_pc' = "serving"
            /\ flow_port' = p
            /\ auth_code_future' = Pending
            /\ listener' = "serving"
            /\ redirect_uri' = LocalCallback(p)
            /\ UNCHANGED <<original_redirect_uri, auth_url>>
    /\ UNCHANGED <<inflight, configured, store_write, cred, token_file, outer_token_file, now>>

\* from the call to server_thread.start(); bind: TCPServer can bind the port
flow_start(p, bind) ==
    /\ flow_pc = "idle"
    /\ IF ~configured
       THEN /\ last' = FlowRaise(p, <<>>, "ValueError", "OAuth2 not configured")
            /\ UNCHANGED flowvars
       ELSE IF ~bind
       THEN /\ last' = FlowRaise(p, <<>>, "OSError", "Address already in use")
            /\ UNCHANGED flowvars
       ELSE /\ last' = Running(p)
            /\ flow_pc' = "serving"
            /\ flow_port' = p
            /\ auth_code_future' = Pending
            /\ listener' = "serving"
            /\ UNCHANGED <<original_redirect_uri, auth_url>>
    /\ UNCHANGED <<inflight, configured, store_write, cred, token_file, outer_token_file, now, redirect_uri>>

\* flow_open_browser building the URL before redirect_uri points to the
\* listener
flow_open_browser_UrlBeforeSwap(opens) ==
    /\ flow_pc = "serving"
    /\ redirect_uri' = LocalCallback(flow_port)
    /\ IF opens
       THEN /\ last' = Running(flow_port)
            /\ flow_pc' = "waiting"
            /\ original_redirect_uri' = redirect_uri
            /\ auth_url' = redirect_uri
            /\ UNCHANGED <<flow_port, auth_code_future, listener>>
       ELSE /\ last' = FlowRaise(flow_port, <<>>, "webbrowser.Error", "could not open the browser")
            /\ Exit
    /\ UNCHANGED <<inflight, configured, store_write, cred, token_file, outer_token_file, now>>

\* the try block up to webbrowser.open; opens: webbrowser.open returns
\* (it raises webbrowser.Error otherwise)
flow_open_browser(opens) ==
    /\ flow_pc = "serving"
    /\ redirect_uri' = LocalCallback(flow_port)
    /\ IF opens
       THEN /\ last' = Running(flow_port)
            /\ flow_pc' = "waiting"
            /\ original_redirect_uri' = redirect_uri
            /\ auth_url' = LocalCallback(flow_port)
            /\ UNCHANGED <<flow_port, auth_code_future, listener>>
       ELSE /\ last' = FlowRaise(flow_port, <<>>, "webbrowser.Error", "could not open the browser")
            /\ Exit
    /\ UNCHANGED <<inflight, configured, store_write, cred, token_file, outer_token_file, now>>

\* do_GET on a slot that takes every hit (the last one wins)
do_GET_Overwrites(path, code) ==
    /\ listener = "serving"
    /\ IF path # "/callback"
       THEN /\ last' = Returned("do_GET", <<path, code>>, <<>>, 404)
            /\ UNCHANGED auth_code_future
       ELSE IF code # None
       THEN /\ last' = Returned("do_GET", <<path, code>>, <<>>, 200)
            /\ auth_code_future' = Resolved(code)
       ELSE /\ last' = Returned("do_GET", <<path, code>>, <<>>, 400)
            /\ auth_code_future' = Failed("No code found in callback")
    /\ UNCHANGED <<flow_pc, flow_port, listener, original_redirect_uri, auth_url>>
    /\ UNCHANGED <<inflight, configured, store_write, cred, token_file, outer_token_file, now, redirect_uri>>

\* do_GET without the test of the path
do_GET_AnyPath(path, code) ==
    /\ listener = "serving"
    /\ IF auth_code_future.state # "pending"
       THEN /\ last' = Result("do_GET", <<path, code>>, <<>>, "raise", "InvalidStateError", "invalid state")
            /\ UNCHANGED auth_code_future
       ELSE IF code # None
       THEN /\ last' = Returned("do_GET", <<path, code>>, <<>>, 200)
            /\ auth_code_future' = Resolved(code)
       ELSE /\ last' = Returned("do_GET", <<path, code>>, <<>>, 400)
            /\ auth_code_future' = Failed("No code found in callback")
    /\ UNCHANGED <<flow_pc, flow_port, listener, original_redirect_uri, auth_url>>
    /\ UNCHANGED <<inflight, configured, store_write, cred, token_file, outer_token_file, now, redirect_uri>>

\* OAuthCallbackHandler.do_GET in the listener thread; code: the code
\* parameter of the query, None when it has none.  set_result and
\* set_exception raise InvalidStateError on a future that is already done,
\* and the handler then dies before it sends a response.
do_GET(path, code) ==
    /\ listener = "serving"
    /\ IF path # "/callback"
       THEN /\ last' = Returned("do_GET", <<path, code>>, <<>>, 404)
            /\ UNCHANGED auth_code_future
       ELSE IF auth_code_future.state # "pending"
       THEN /\ last' = Result("do_GET", <<path, code>>, <<>>, "raise", "InvalidStateError", "invalid state")
            /\ UNCHANGED auth_code_future
       ELSE IF code # None
       THEN /\ last' = Returned("do_GET", <<path, code>>, <<>>, 200)
            /\ auth_code_future' = Resolved(code)
       ELSE /\ last' = Returned("do_GET", <<path, code>>, <<>>, 400)
            /\ auth_code_future' = Failed("No code found in callback")
    /\ UNCHANGED <<flow_pc, flow_port, listener, original_redirect_uri, auth_url>>
    /\ UNCHANGED <<inflight, configured, store_write, cred, token_file, outer_token_file, now, redirect_uri>>

\* flow_timeout treating the timeout as a sign-out
flow_timeout_ClearsToken ==
    /\ flow_pc = "waiting"
    /\ auth_code_future.state = "pending"
    /\ last' = FlowRaise(flow_port, <<>>, "TimeoutError", "OAuth flow timed out. Please try again.")
    /\ Exit
    /\ _access_token' = None /\ _token_expires_at' = NoneNum /\ _refresh_token' = None
    /\ UNCHANGED <<inflight, configured, store_write, token_file, outer_token_file, now, redirect_uri>>

\* asyncio.wait_for gives up after 300 s on a future that is still pending
flow_timeout ==
    /\ flow_pc = "waiting"
    /\ auth_code_future.state = "pending"
    /\ last' = FlowRaise(flow_port, <<>>, "TimeoutError", "OAuth flow timed out. Please try again.")
    /\ Exit
    /\ UNCHANGED <<inflight, configured, store_write, cred, token_file, outer_token_file, now, redirect_uri>>

\* What the flow returns or raises after exchange_code_for_token(code)
\* answered with r1, r2.
FlowOutcome(p, code, r1, r2) ==
    IF ExchangeResult("exchange_code_for_token", <<code>>, r1, r2).outcome = "raise"
    THEN ExchangeResult("start_local_oauth_flow", <<p, code>>, r1, r2)
    ELSE IF ExchangeResult("exchange_code_for_token", <<code>>, r1, r2).value = "success"
    THEN Returned("start_local_oauth_flow", <<p, code>>, <<r1, r2>>, "Successfully authenticated and token cached.")
    ELSE Result("start_local_oauth_flow", <<p, code>>, <<r1>>, "raise", "ValueError", "Failed to exchange token")

\* flow_resume reporting success whatever the exchange returned
flow_resume_IgnoresResult(r1, r2) ==
    /\ flow_pc = "waiting"
    /\ auth_code_future.state \in {"result", "exception"}
    /\ IF auth_code_future.state = "exception"
       THEN /\ last' = FlowRaise(flow_port, <<>>, "ValueError", auth_code_future.result)
            /\ UNCHANGED <<cred, token_file, redirect_uri>>
       ELSE /\ ExchangeBody(r1, r2)
            /\ last' = Returned("start_local_oauth_flow", <<flow_port, auth_code_future.result>>, <<r1, r2>>,
                                 "Successfully authenticated and token cached.")
            /\ redirect_uri' = original_redirect_uri
    /\ Exit
    /\ UNCHANGED <<inflight, configured, store_write, outer_token_file, now>>

\* the await of the future is over: its exception is raised, or its code is
\* exchanged, redirect_uri restored and the outcome derived from the result
flow_resume(r1, r2) ==
    /\ flow_pc = "waiting"
    /\ auth_code_future.state \in {"result", "exception"}
    /\ IF auth_code_future.state = "exception"
       THEN /\ last' = FlowRaise(flow_port, <<>>, "ValueError", auth_code_future.result)
            /\ UNCHANGED <<cred, token_file, redirect_uri>>
       ELSE /\ ExchangeBody(r1, r2)
            /\ last' = FlowOutcome(flow_port, auth_code_future.result, r1, r2)
            /\ redirect_uri' = IF ExchangeResult("exchange_code_for_token", <<auth_code_future.result>>, r1, r2).outcome = "raise"
                               THEN redirect_uri
                               ELSE original_redirect_uri
    /\ Exit
    /\ UNCHANGED <<inflight, configured, store_write, outer_token_file, now>>

\* The answers a resumed flow consumes (none when the future holds an
\* exception, the upgrade's only after a 200 with a JSON object).
ResumeStep ==
    IF auth_code_future.state # "result"
    THEN flow_resume(NoData, NoData)
    ELSE \E r1 \in CodeAnswers :
            IF r1.kind = "ok"
            THEN \E r2 \in LongLivedAnswers : flow_resume(r1, r2)
            ELSE flow_resume(r1, NoData)

NextFlow ==
    \/ \E p \in Ports, bind \in BOOLEAN : flow_start(p, bind)
    \/ \E opens \in BOOLEAN : flow_open_browser(opens)
    \/ \E path \in Paths, code \in Codes \cup {None} : do_GET(path, code)
    \/ flow_timeout
    \/ ResumeStep

SpecFlow == Init /\ [][NextFlow]_vars

\* The coroutine is scheduled again once its future is done: at the latest
\* when the timer of wait_for wakes the event loop, and wait_for returns the
\* result of a future that is done.
FlowFairness == WF_vars(ResumeStep)
SpecFlowFair == SpecFlow /\ FlowFairness

\* ------------------------------------------------------- the tool handlers

\* A request to the provider's messaging API, with the bearer token of its
\* Authorization header.
ApiRequest(token) == Answer("api", token, NoneNum, None)
ApiRequests(http) == {i \in 1..Len(http) : http[i].kind = "api"}

\* utils.get_token_error_message()
get_token_error_message ==
    IF ~configured THEN "OAuth2 is not configured" ELSE "OAuth2 token not available"

\* A handler of whatsapp_mcp.tools (send_message and the sixteen others of the
\* same shape; send_reply delegates to send_message): get_valid_token(), the
\* error response when it is falsy, the parameter checks (valid: they pass),
\* then the request with `Bearer {token}`.
tool_handler(r, valid) ==
    /\ RefreshBody(r)
    /\ last' = IF ~Truthy(_access_token')
               THEN Result("tool", <<>>, RefreshHttp(r), "return", "error", get_token_error_message)
               ELSE IF ~valid
               THEN Result("tool", <<>>, RefreshHttp(r), "return", "error", "Missing required parameter(s)")
               ELSE Returned("tool", <<>>, RefreshHttp(r) \o <<ApiRequest(_access_token')>>, "response")
    /\ UNCHANGED <<flowvars, inflight, configured, store_write, outer_token_file, now, redirect_uri>>

\* A handler of the stand-alone server.py (send_message and the others of the
\* same shape): it never consults the manager; env is WHATSAPP_BEARER_TOKEN
\* of its environment.
server_tool_handler(env, valid) ==
    /\ last' = IF ~Truthy(env)
               THEN Result("server.tool", <<env>>, <<>>, "return", "error", "WHATSAPP_BEARER_TOKEN is not set in environment variables")
               ELSE IF ~valid
               THEN Result("server.tool", <<env>>, <<>>, "return", "error", "Missing required parameter(s)")
               ELSE Returned("server.tool", <<env>>, <<ApiRequest(env)>>, "response")
    /\ UNCHANGED <<flowvars, inflight, configured, store_write, cred, token_file, outer_token_file, now, redirect_uri>>

BearerEnvs == {None, "ENV"}

NextTools ==
    \/ Next
    \/ \E r \in LongLivedAnswers, valid \in BOOLEAN : tool_handler(r, valid)
    \/ \E env \in BearerEnvs, valid \in BOOLEAN : server_tool_handler(env, valid)

SpecTools == Init /\ [][NextTools]_vars

\* ------------------------------------------- refresh calls, await by await

\* refresh_if_needed and refresh_token as the event loop runs them: a call
\* runs up to its `await client.get/post`, other coroutines run while it
\* awaits, and it runs to its end when the response is there.  Nothing after
\* the await yields again, so the save is one step.
RefreshCalls == {"refresh_if_needed", "refresh_token"}

\* caller c calls op; it returns at once on an early return, and awaits its
\* request otherwise
refresh_begin(c, op) ==
    /\ inflight[c] = "idle"
    /\ IF op = "refresh_if_needed"
       THEN IF NeedsRefresh
            THEN /\ inflight' = [inflight EXCEPT ![c] = op]
                 /\ last' = Result(op, <<c>>, <<>>, "await", None, None)
            ELSE /\ last' = Returned(op, <<c>>, <<>>, None)
                 /\ UNCHANGED inflight
       ELSE IF Truthy(_refresh_token)
            THEN /\ inflight' = [inflight EXCEPT ![c] = op]
                 /\ last' = Result(op, <<c>>, <<>>, "await", None, None)
            ELSE /\ last' = Returned(op, <<c>>, <<>>, Bool(FALSE))
                 /\ UNCHANGED inflight
    /\ UNCHANGED <<flowvars, configured, store_write, cred, token_file, outer_token_file, now, redirect_uri>>

\* refresh_complete installing the new token with the expiry already held
refresh_complete_KeepsExpiry(c, r) ==
    /\ inflight[c] \in RefreshCalls
    /\ inflight' = [inflight EXCEPT ![c] = "idle"]
    /\ IF inflight[c] = "refresh_if_needed"
       THEN /\ IF DictTruthy(r) /\ Truthy(r.access_token)
               THEN /\ _access_token' = r.access_token
                    /\ UNCHANGED <<_token_expires_at, _refresh_token, token_file>>
               ELSE UNCHANGED <<cred, token_file>>
            /\ last' = Returned("refresh_if_needed", <<c>>, <<r>>, None)
       ELSE IF r.kind = "ok"
       THEN /\ _save_token(r.access_token, GetNum(r.expires_in, DEFAULT_EXPIRES_IN), _refresh_token)
            /\ last' = Returned("refresh_token", <<c>>, <<r>>, Bool(TRUE))
       ELSE /\ last' = Returned("refresh_token", <<c>>, <<r>>, Bool(FALSE))
            /\ UNCHANGED <<cred, token_file>>
    /\ UNCHANGED <<flowvars, configured, store_write, outer_token_file, now, redirect_uri>>

\* the response r reaches caller c: the rest of refresh_if_needed (lines
\* 214-219) or of refresh_token (lines 186-195)
refresh_complete(c, r) ==
    /\ inflight[c] \in RefreshCalls
    /\ inflight' = [inflight EXCEPT ![c] = "idle"]
    /\ IF inflight[c] = "refresh_if_needed"
       THEN /\ IF DictTruthy(r) /\ Truthy(r.access_token)
               THEN _save_token(r.access_token, GetNum(r.expires_in, LONG_LIVED_EXPIRES_IN), _refresh_token)
               ELSE UNCHANGED <<cred, token_file>>
            /\ last' = Returned("refresh_if_needed", <<c>>, <<r>>, None)
       ELSE IF r.kind = "ok"
       THEN /\ _save_token(r.access_token, GetNum(r.expires_in, DEFAULT_EXPIRES_IN), _refresh_token)
            /\ last' = Returned("refresh_token", <<c>>, <<r>>, Bool(TRUE))
       ELSE /\ last' = Returned("refresh_token", <<c>>, <<r>>, Bool(FALSE))
            /\ UNCHANGED <<cred, token_file>>
    /\ UNCHANGED <<flowvars, configured, store_write, outer_token_file, now, redirect_uri>>

\* Answers that tell two responses apart.
RefreshAnswers == LongLivedAnswers \cup {Answer("ok", "long2", 5183000, None)}

NextRefresh ==
    \/ Tick
    \/ \E c \in Callers, op \in RefreshCalls : refresh_begin(c, op)
    \/ \E c \in Callers, r \in RefreshAnswers : refresh_complete(c, r)
    \/ \E rm \in BOOLEAN : clear_token(rm)
    \/ \E e \in ExpiresIns : set_access_token("X", e)

SpecRefresh == Init /\ [][NextRefresh]_vars

\* ----------------------------------------------------------------- claims

\* A field of the credential is present.
Present(s) == s # None
PresentNum(t) == t # NoneNum

\* C1: whenever the in-memory access_token is present, expires_at is present
\* too (every writer of the model assigns the two fields in one step, so
\* "set by the same assignment" adds nothing a state can tell apart).
C1_TokenCarriesExpiry == Present(_access_token) => PresentNum(_token_expires_at)

\* The operations that acquire, refresh or hand out authorization.
TokenOps == {"get_authorization_url", "exchange_code_for_token", "refresh_if_needed",
             "refresh_token", "start_local_oauth_flow"}

\* C2: an unconfigured manager fails every token-affecting operation fast:
\* the call raises the configuration error or returns without a result, and
\* it has issued no HTTP request.
C2_UnconfiguredFailsFast ==
    (~configured /\ last.op \in TokenOps) =>
        /\ NetCalls = 0
        /\ last.outcome = "raise" \/ last.value \in {None, Bool(FALSE)}

\* C3: exchange_code_for_token never raises: it returns success, or failure
\* with an error message.
C3_ExchangeNeverRaises ==
    last.op = "exchange_code_for_token" =>
        /\ last.outcome = "return"
        /\ last.value = "success" \/ (last.value = "failure" /\ Present(last.error))

\* The state right after an exchange_code_for_token call whose code exchange
\* (step 1) was answered 200 with a JSON object: http[1] is that answer,
\* http[2] the answer to the upgrade.
StepOneOk == last.op = "exchange_code_for_token" /\ Len(last.http) = 2 /\ last.http[1].kind = "ok"
\* The Store mirrors the credential unless the write was refused.
Saved ==
    store_write = "ok" =>
        /\ token_file.state = "object"
        /\ json_load(token_file.access_token) = _access_token
        /\ json_load_num(token_file.expires_at) = _token_expires_at

\* C4 as claimed: after a successful code exchange the call returns success
\* and the stored credential is the upgrade's token and expires_in if the
\* upgrade call succeeded, else the short-lived token and its expires_in
\* (3600 when the answer has none); it is saved in both cases.
C4_LongLivedOrShortLived ==
    StepOneOk =>
        /\ last.value = "success"
        /\ IF last.http[2].kind = "ok"
           THEN /\ _access_token = last.http[2].access_token
                /\ _token_expires_at = now + last.http[2].expires_in
           ELSE /\ _access_token = last.http[1].access_token
                /\ _token_expires_at = now + GetNum(last.http[1].expires_in, DEFAULT_EXPIRES_IN)
        /\ Saved

\* C4 amended: the upgrade supersedes field by field: the stored token is the
\* upgrade answer's access_token when the upgrade succeeded and carries one,
\* else the short-lived token; the stored expiry uses the upgrade answer's
\* expires_in when it carries one, else the short-lived expires_in (3600 when
\* that is missing too).
C4_UpgradeSupersedesPerField ==
    StepOneOk =>
        /\ last.value = "success"
        /\ _access_token = (IF last.http[2].kind = "ok" /\ Present(last.http[2].access_token)
                            THEN last.http[2].access_token
                            ELSE last.http[1].access_token)
        /\ _token_expires_at = now + (IF last.http[2].kind = "ok" /\ PresentNum(last.http[2].expires_in)
                                      THEN last.http[2].expires_in
                                      ELSE IF PresentNum(last.http[1].expires_in)
                                      THEN last.http[1].expires_in
                                      ELSE DEFAULT_EXPIRES_IN)
        /\ Saved

\* An upgrade answered with a token but no expires_in: the long-lived token
\* is stored with the short-lived token's two hours.
C4_Witness ==
    /\ StepOneOk
    /\ last.http[2].kind = "ok" /\ last.http[2].access_token = "long" /\ last.http[2].expires_in = NoneNum
    /\ last.http[1].expires_in = 7200
    /\ _access_token = "long" /\ _token_expires_at = now + 7200

\* A token is held together with its expiry, and the expiry is inside the
\* refresh window (now >= expires_at - REFRESH_BUFFER).
TokenHeld == Present(_access_token) /\ PresentNum(_token_expires_at)
Due == now >= _token_expires_at - REFRESH_BUFFER_SECONDS

\* C5 as claimed: refresh_if_needed issues an exchange call exactly when a
\* token is held and now >= expires_at - REFRESH_BUFFER.
C5_RefreshExactlyWhenDue ==
    [][last'.op = "refresh_if_needed" => (Len(last'.http) = 1 <=> (TokenHeld /\ Due))]_vars

\* C5 amended: refresh_if_needed issues an exchange call exactly when the
\* manager is configured, a token is held and now >= expires_at -
\* REFRESH_BUFFER; otherwise it issues none.
C5_RefreshExactlyWhenDueAndConfigured ==
    [][last'.op = "refresh_if_needed" =>
          /\ Len(last'.http) = 1 <=> (configured /\ TokenHeld /\ Due)
          /\ Len(last'.http) \in {0, 1}]_vars

\* A refresh attempt (which failed) for a token that expires one second
\* inside the window: expires_at = now + REFRESH_BUFFER - 1.
C5_Witness ==
    /\ last.op = "refresh_if_needed" /\ NetCalls = 1 /\ last.http[1].kind = "transport"
    /\ _access_token = "X" /\ _token_expires_at = now + REFRESH_BUFFER_SECONDS - 1

\* C6: a refresh_if_needed call that directly follows another one, with the
\* held token far from expiry (now < expires_at - REFRESH_BUFFER), issues no
\* request and leaves the credential and the Store as they are.
C6_SecondRefreshIsNoOp ==
    [][(last.op = "refresh_if_needed" /\ last'.op = "refresh_if_needed" /\ TokenHeld /\ ~Due) =>
          /\ Len(last'.http) = 0
          /\ cred' = cred
          /\ token_file' = token_file]_vars

\* The second of two calls: the first refreshed the token (only
\* refresh_if_needed stores an expiry of now + 5184000), this one did nothing.
C6_Witness ==
    /\ last.op = "refresh_if_needed" /\ NetCalls = 0
    /\ _access_token = "long" /\ _token_expires_at = now + LONG_LIVED_EXPIRES_IN

\* The exchange call failed, or its answer carries no access_token.
NoNewToken(r) == r.kind # "ok" \/ ~Present(r.access_token)

\* C7: when the exchange call of refresh_if_needed fails or returns no
\* access_token, the call returns normally and access_token, expires_at and
\* refresh_token are unchanged; get_valid_token then returns that prior token,
\* expired or not.
C7_FailedRefreshKeepsToken ==
    [][(last'.op \in {"refresh_if_needed", "get_valid_token"} /\ Len(last'.http) = 1 /\ NoNewToken(last'.http[1])) =>
          /\ last'.outcome = "return"
          /\ cred' = cred
          /\ token_file' = token_file
          /\ last'.op = "get_valid_token" => last'.value = _access_token]_vars

\* get_valid_token hands out the expired token "A" after a failed refresh.
C7_Witness ==
    /\ last.op = "get_valid_token" /\ NetCalls = 1 /\ NoNewToken(last.http[1])
    /\ last.value = "A" /\ _access_token = "A" /\ _token_expires_at <= now

\* C8: get_access_token is a pure read: it returns the in-memory
\* access_token (None when there is none), changes neither the credential nor
\* the Store nor anything else, and issues no request.
C8_GetAccessTokenIsPureRead ==
    [][last'.op = "get_access_token" =>
          /\ last'.outcome = "return" /\ last'.value = _access_token
          /\ Len(last'.http) = 0
          /\ cred' = cred /\ token_file' = token_file
          /\ UNCHANGED <<flowvars, inflight, configured, store_write, outer_token_file, now, redirect_uri>>]_vars

\* get_access_token returned a token that is already past its expiry.
C8_Witness ==
    /\ last.op = "get_access_token" /\ last.value = "A"
    /\ PresentNum(_token_expires_at) /\ _token_expires_at <= now

\* C9: set_access_token(token, expires_in) overrides unconditionally: it
\* issues no request, the credential then holds token with expires_at = time
\* of the call + expires_in, and a get_access_token that follows returns token.
C9_SetAccessTokenOverrides ==
    [][/\ last'.op = "set_access_token" =>
             /\ last'.outcome = "return" /\ Len(last'.http) = 0
             /\ _access_token' = last'.args[1]
             /\ _token_expires_at' = now + last'.args[2]
       /\ (last.op = "set_access_token" /\ last'.op = "get_access_token") =>
             last'.value = last.args[1]]_vars

\* An unconfigured manager took an external token one second after start-up
\* and handed it out.
C9_Witness ==
    /\ ~configured /\ now = 1
    /\ last.op = "get_access_token" /\ last.value = "X"
    /\ _token_expires_at = now + REFRESH_BUFFER_SECONDS + 1

\* The call just made was a successful authorization.
Authorized ==
    \/ last.op = "exchange_code_for_token" /\ last.outcome = "return" /\ last.value = "success"
    \/ last.op = "start_local_oauth_flow" /\ last.outcome = "return"
Wiped == cred = <<None, NoneNum, None>>

\* C10 as claimed: clear() after a successful authorization wipes
\* access_token, expires_at and refresh_token, the cache file is gone, and
\* get_access_token() then returns None.
C10_ClearWipesAndDeletes ==
    [][/\ (Authorized /\ last'.op = "clear_token") =>
             (Wiped' /\ token_file'.state = "missing")
       /\ (last.op = "clear_token" /\ last'.op = "get_access_token") =>
             last'.value = None]_vars

\* C10 amended: clear() (after a successful authorization or in any other
\* state) wipes access_token, expires_at and refresh_token, and
\* get_access_token() then returns None; the cache file is gone unless
\* os.remove failed, in which case the failure is swallowed and the file is
\* left as it was.
C10_ClearWipesAndDeletesUnlessRemoveFails ==
    [][/\ last'.op = "clear_token" =>
             /\ Wiped'
             /\ last'.outcome = "return"
             /\ IF last'.error = None
                THEN token_file'.state = "missing"
                ELSE token_file' = token_file /\ token_file.state # "missing"
       /\ (last.op = "clear_token" /\ last'.op = "get_access_token") =>
             last'.value = None]_vars

\* clear() after an authorization whose upgrade answer had no expires_in (only
\* exchange_code_for_token writes "long" with the short-lived two hours):
\* memory is wiped, os.remove failed and the file is still there.
C10_Witness ==
    /\ last.op = "clear_token" /\ last.error # None /\ Wiped
    /\ token_file.state = "object" /\ token_file.access_token = "long"
    /\ token_file.expires_at - 7200 \in 0..now
\* ---------------------------------------------------------------- C11
\* C11: a manager constructed over a cache file that holds an access token
\* and an expiry far in the future answers the first get_access_token() with
\* the cached token, and neither the construction nor the read issues an HTTP
\* request.
FarFuture(f) ==
    /\ f.state = "object"
    /\ Present(json_load(f.access_token))
    /\ PresentNum(json_load_num(f.expires_at))
    /\ now < json_load_num(f.expires_at) - REFRESH_BUFFER_SECONDS
C11_ColdStartServesCachedToken ==
    [][(last.op = "__init__" /\ FarFuture(token_file) /\ last'.op = "get_access_token") =>
          /\ last'.outcome = "return"
          /\ last'.value = json_load(token_file.access_token)
          /\ Len(last.http) = 0 /\ Len(last'.http) = 0]_vars
C11_Witness ==
    /\ last.op = "get_access_token" /\ last.value = "A" /\ NetCalls = 0
    /\ FarFuture(token_file)
    /\ token_file = ObjectFile("A", LONG_LIVED_EXPIRES_IN, None)
    /\ cred = <<"A", LONG_LIVED_EXPIRES_IN, None>>

\* ---------------------------------------------------------------- C12
\* C12: when the cache file is missing, unreadable, malformed or holds JSON
\* that is not an object, the constructor returns and the three fields of the
\* credential are absent.
NoUsableFile(f) == f.state \in {"missing", "unreadable", "malformed", "non_object"}
C12_LoadNeverRaises ==
    (last.op = "__init__" /\ NoUsableFile(token_file)) =>
        (last.outcome = "return" /\ Wiped)
C12_Witness ==
    /\ last.op = "__init__" /\ last.outcome = "return"
    /\ token_file.state = "non_object" /\ last.error = "AttributeError"
    /\ Wiped

\* ---------------------------------------------------------------- C13
\* The arguments (access_token, expires_in, refresh_token) of the _save_token
\* call the last step made, or the empty tuple when it made none.
SavedArgs ==
    IF last.op = "set_access_token"
    THEN <<last.args[1], last.args[2], None>>
    ELSE IF last.op \in {"exchange_code_for_token", "start_local_oauth_flow"} /\ Len(last.http) = 2
    THEN <<ExchangeToken(last.http[1], last.http[2]), ExchangeExpiresIn(last.http[1], last.http[2]),
           last.http[1].refresh_token>>
    ELSE IF last.op = "refresh_token" /\ last.value = Bool(TRUE)
    THEN <<last.http[1].access_token, GetNum(last.http[1].expires_in, DEFAULT_EXPIRES_IN), _refresh_token>>
    ELSE IF last.op \in {"refresh_if_needed", "get_valid_token"} /\ Len(last.http) = 1 /\ ~NoNewToken(last.http[1])
    THEN <<last.http[1].access_token, GetNum(last.http[1].expires_in, LONG_LIVED_EXPIRES_IN), _refresh_token>>
    ELSE <<>>
DidSave == Len(SavedArgs) = 3

\* C13: when a step saved (token, expires_in, refresh) and the write of the
\* cache file succeeded, a new manager constructed over that file holds the
\* same access_token, the same refresh_token and expires_at = time of the
\* save + expires_in.
C13_SaveLoadRoundTrip ==
    [][(DidSave /\ store_write = "ok" /\ last'.op = "__init__") =>
          cred' = <<SavedArgs[1], now + SavedArgs[2], SavedArgs[3]>>]_vars
C13_Witness ==
    /\ last.op = "__init__" /\ store_write = "ok"
    /\ token_file = ObjectFile("long", now + 7200, None)
    /\ cred = <<"long", now + 7200, None>>

\* ---------------------------------------------------------------- C14
\* C14: when the write of the cache file fails, a step that saves a token
\* still returns without a failure result and the in-memory access_token and
\* expires_at are those of the new token.
C14_FailedWriteIsSwallowed ==
    [][(store_write = "denied" /\ DidSave') =>
          /\ last'.outcome = "return" /\ last'.value \notin {"failure", Bool(FALSE)}
          /\ _access_token' = SavedArgs'[1]
          /\ _token_expires_at' = now + SavedArgs'[2]]_vars
C14_Witness ==
    /\ store_write = "denied" /\ token_file = NoFile
    /\ last.op = "exchange_code_for_token" /\ last.value = "success"
    /\ cred = <<"long", now + 7200, "R">>

\* ---------------------------------------------------------------- C15
\* C15: after a step that saved a token and whose write of the cache file
\* succeeded, the file's access_token, expires_at and refresh_token equal the
\* in-memory ones.
C15_StoreMirrorsMemory ==
    (DidSave /\ store_write = "ok") =>
        /\ token_file.state = "object"
        /\ json_load(token_file.access_token) = _access_token
        /\ json_load_num(token_file.expires_at) = _token_expires_at
        /\ json_load(token_file.refresh_token) = _refresh_token

\* ---------------------------------------------------------------- C16
\* C16: a refresh token held in memory is still held, unchanged, after every
\* refresh step (refresh_if_needed, get_valid_token's refresh, refresh_token),
\* whether the step obtained a new access token or not.
RefreshOps == {"refresh_if_needed", "get_valid_token", "refresh_token"}
C16_RefreshTokenRetained ==
    [][(Present(_refresh_token) /\ last'.op \in RefreshOps) =>
          _refresh_token' = _refresh_token]_vars
C16_Witness ==
    /\ last.op = "refresh_if_needed" /\ NetCalls = 1 /\ ~NoNewToken(last.http[1])
    /\ cred = <<"long", now + LONG_LIVED_EXPIRES_IN, "R">>

\* ---------------------------------------------------------------- C17
\* C17: whenever start_local_oauth_flow is not running (it has not been
\* called, or it has returned or raised: success, missing code, timeout,
\* exchange failure, failure to open the URL) no callback listener is serving:
\* the listener a flow started is shut down and its port closed.
C17_ListenerTornDown == flow_pc = "idle" => listener = "closed"
FlowEnded == last.op = "start_local_oauth_flow" /\ last.outcome \in {"return", "raise"}
C17_Witness ==
    /\ FlowEnded /\ flow_pc = "idle" /\ listener = "closed"
    /\ last.value = "TimeoutError"

C19_TimeoutFailsWithoutExchange ==
    [][(flow_pc = "waiting" /\ auth_code_future.state = "pending" /\ flow_pc' # "waiting") =>
          /\ last'.op = "start_local_oauth_flow"
          /\ last'.outcome = "raise" /\ last'.value = "TimeoutError"
          /\ Len(last'.http) = 0
          /\ flow_pc' = "idle"
          /\ cred' = cred /\ token_file' = token_file]_vars
C19_Witness ==
    /\ FlowEnded /\ last.value = "TimeoutError" /\ NetCalls = 0
    /\ flow_pc = "idle"
    /\ cred = <<"A", 1, "R">> /\ token_file = ObjectFile("A", 1, "R")

\* ---------------------------------------------------------------- C20
\* What exchange_code_for_token did in the flow that just ended, judged from
\* the answers it consumed.
ExchangeOfFlow ==
    ExchangeResult("exchange_code_for_token", <<last.args[2]>>, last.http[1],
                   IF Len(last.http) = 2 THEN last.http[2] ELSE NoData)
ExchangedCode(c) ==
    /\ FlowEnded /\ last.args = <<last.args[1], c>>
    /\ Len(last.http) >= 1

\* C20: once the listener has resolved the future of an awaiting flow with a
\* code, the flow eventually calls exchange_code_for_token with exactly that
\* code; and a flow that exchanged a code returns (success) exactly when the
\* exchange returned success, and raises otherwise.
C20_CodeIsExchanged ==
    /\ \A c \in Codes :
          (flow_pc = "waiting" /\ auth_code_future = Resolved(c)) ~> ExchangedCode(c)
    /\ [][(flow_pc = "waiting" /\ auth_code_future.state = "result" /\ flow_pc' = "idle") =>
             /\ FlowEnded' /\ Len(last'.http) >= 1
             /\ last'.args = <<flow_port, auth_code_future.result>>
             /\ last'.outcome = "return" <=>
                    (ExchangeOfFlow'.outcome = "return" /\ ExchangeOfFlow'.value = "success")]_vars
C20_Witness ==
    /\ ExchangedCode("xyz") /\ last.outcome = "return"
    /\ ExchangeOfFlow.value = "success"
    /\ _access_token = "long"

\* ---------------------------------------------------------------- C21
\* C21: after a tool handler has run, every request it sent to the provider
\* carries the token get_valid_token returned to it (the access_token the
\* manager holds once the handler's refresh is done), and when that token is
\* absent the handler has sent no request at all and returned an error
\* response.
ToolOps == {"tool", "server.tool"}
C21_NoRequestWithoutValidToken ==
    last.op \in ToolOps =>
        /\ \A i \in ApiRequests(last.http) : last.http[i].access_token = _access_token
        /\ ~Truthy(_access_token) => (NetCalls = 0 /\ last.value = "error")

\* ---------------------------------------------------------------- C22
\* C22: a manager that holds an access token still holds one after every
\* step other than clear_token, whatever the provider answers.
C22_OnlyClearDropsToken ==
    [][(Present(_access_token) /\ ~Present(_access_token')) => last'.op = "clear_token"]_vars

\* ---------------------------------------------------------------- C29
\* C29: when exchange_code_for_token returns a failure result (the request
\* was rejected, failed in transport, or its 200 body was not JSON), the
\* in-memory access_token, expires_at and refresh_token and the cache file are
\* exactly as they were before the call.
C29_FailedExchangeChangesNothing ==
    [][(last'.op = "exchange_code_for_token" /\ last'.outcome = "return" /\ last'.value = "failure") =>
          (cred' = cred /\ token_file' = token_file)]_vars
C29_Witness ==
    /\ last.op = "exchange_code_for_token" /\ last.value = "failure"
    /\ NetCalls = 1 /\ last.http[1].kind = "http_json"
    /\ cred = <<"A", 1, "R">> /\ token_file = ObjectFile("A", 1, "R")

\* ---------------------------------------------------------------- C23
\* C23: the future of one interactive attempt is fulfilled at most once: the
\* first /callback hit fulfils it (with its code, or with the missing-code
\* error), no later hit changes it while the flow runs, and the code the flow
\* exchanges is the one the future holds, the first hit's.
Done(f) == f.state \in {"result", "exception"}
C23_FutureFulfilledOnce ==
    [][/\ (Done(auth_code_future) /\ flow_pc' # "idle") => auth_code_future' = auth_code_future
       /\ (auth_code_future.state = "pending" /\ last'.op = "do_GET" /\ last'.args[1] = "/callback") =>
             auth_code_future' = IF last'.args[2] # None THEN Resolved(last'.args[2])
                                 ELSE Failed("No code found in callback")
       /\ (flow_pc = "waiting" /\ auth_code_future.state = "result" /\ flow_pc' = "idle") =>
             last'.args = <<flow_port, auth_code_future.result>>]_vars
C23_Witness ==
    /\ last.op = "do_GET" /\ last.args = <<"/callback", "xyz">>
    /\ last.outcome = "raise" /\ last.value = "InvalidStateError"
    /\ auth_code_future = Resolved("abc")
    /\ flow_pc = "waiting"

\* ---------------------------------------------------------------- C24
\* C24: with two callers of refresh_if_needed in flight at once (both passed
\* the checks, both issued their request), every completion either leaves the
\* credential as it is (its response carries no token) or installs
\* access_token and expires_at together from its own response; so the pair
\* held once both have completed comes from one response, the last that
\* carried a token, and a token that was held is never lost.
Completed(op) == last.op = op /\ last.outcome = "return" /\ Len(last.http) = 1
C28_ClearBeatsInflightRefresh ==
    [][(Wiped /\ last'.op \in RefreshCalls) =>
          (Wiped' /\ token_file' = token_file)]_vars

\* ---------------------------------------------------------------- C25
\* C25: after construction no operation loads credential fields from a cache
\* file (only __init__ may set the credential from file content), and every
\* step that saved a token leaves the writable cache file holding that token
\* and its expiry.
C25_StoreReadOnlyAtConstruction ==
    [][/\ last'.op = "has_valid_token" => cred' = cred
       /\ (DidSave' /\ last'.op # "__init__") => Saved']_vars

\* ---------------------------------------------------------------- C26
\* C26: the browser is opened on the authorization URL only while the
\* listener of the flow is already bound and serving on the port that the
\* URL names; when binding fails the flow raises with no browser opened, no
\* listener serving and redirect_uri left as it was.
C26_ListenerServesBeforeBrowser ==
    [][/\ (auth_url = None /\ auth_url' # None) =>
            /\ listener = "serving" /\ listener' = "serving"
            /\ flow_port' = flow_port
            /\ auth_url' = LocalCallback(flow_port)
       /\ (last'.op = "start_local_oauth_flow" /\ last'.outcome = "raise" /\ last'.value = "OSError") =>
            /\ redirect_uri' = redirect_uri
            /\ auth_url' = None
            /\ listener' # "serving"]_vars
C26_Witness ==
    /\ flow_pc = "waiting" /\ flow_port = 9090
    /\ listener = "serving"
    /\ auth_url = LocalCallback(9090)
    /\ auth_code_future = Pending

\* ---------------------------------------------------------------- C27
\* C27 as claimed: every request the listener serves is answered by path and
\* query: /callback with a code gets 200 and resolves the future with that
\* code, /callback without a code gets 400 and fails the future, any other
\* path gets 404 and leaves the future as it is.
C27_ListenerAnswersByPath ==
    [][last'.op = "do_GET" =>
          IF last'.args[1] # "/callback"
          THEN last' = Returned("do_GET", last'.args, <<>>, 404) /\ auth_code_future' = auth_code_future
          ELSE IF last'.args[2] # None
          THEN last' = Returned("do_GET", last'.args, <<>>, 200) /\ auth_code_future' = Resolved(last'.args[2])
          ELSE last' = Returned("do_GET", last'.args, <<>>, 400)
               /\ auth_code_future' = Failed("No code found in callback")]_vars

\* C27 amended: the above holds for the /callback requests that find the
\* future pending; a /callback request that finds it done gets no response
\* (the handler raises InvalidStateError) and leaves the future as it is.
C27_ListenerAnswersWhilePending ==
    [][last'.op = "do_GET" =>
          IF last'.args[1] # "/callback"
          THEN last' = Returned("do_GET", last'.args, <<>>, 404) /\ auth_code_future' = auth_code_future
          ELSE IF Done(auth_code_future)
          THEN last'.outcome = "raise" /\ auth_code_future' = auth_code_future
          ELSE IF last'.args[2] # None
          THEN last' = Returned("do_GET", last'.args, <<>>, 200) /\ auth_code_future' = Resolved(last'.args[2])
          ELSE last' = Returned("do_GET", last'.args, <<>>, 400)
               /\ auth_code_future' = Failed("No code found in callback")]_vars
C27_Witness ==
    /\ last = Returned("do_GET", <<"/callback", None>>, <<>>, 400)
    /\ auth_code_future = Failed("No code found in callback")
    /\ flow_pc = "waiting"

====
